---- MODULE Spec2Model ----
(***************************************************************************)
(* A model of the serverless wrappers: the Request adapter (lazy body      *)
(* parsing), the Response adapter (security headers, rendering) and the    *)
(* ServerlessError hierarchy.                                              *)
(*                                                                         *)
(* Python values are records of one shape, [t, n, s, keys, items]:         *)
(*   t      the type name                                                  *)
(*   n      the number of an int or a bool                                 *)
(*   s      the characters of a str (a sequence of one-character strings)  *)
(*   keys   the keys of a dict, in insertion order                         *)
(*   items  the values of a dict, or the elements of a list                *)
(* A text is a sequence of one-character strings, so that parsing and      *)
(* encoding work on characters.                                            *)
(***************************************************************************)
EXTENDS Integers, Sequences, FiniteSets, TLC

VARIABLES
    event,             \* Request.event
    _data,             \* Request._data: a reference [id, v]
    last,              \* what the last accessor call of the Request did
    log,               \* the entries logger.info received
    loads_calls,       \* how many times json.loads was entered
    nalloc,            \* objects allocated by the Request's accessors
    _security_headers, \* Response._security_headers: the id of the class's dict
    dicts,             \* the header dicts on the heap: id -> mapping
    responses,         \* the Response instances: [data, status_code, headers]
    made,              \* the headers argument of the last Response(...) call
    out,               \* what the last to_lambda_output call did
    status_code,       \* the status_code attribute each exception class defines
    instances,         \* the exception instances constructed
    raised             \* the exception instance raised last

vars == <<event, _data, last, log, loads_calls, nalloc, _security_headers,
          dicts, responses, made, out, status_code, instances, raised>>

requestVars == <<event, _data, last, log, loads_calls, nalloc>>
responseVars == <<_security_headers, dicts, responses, made, out>>
errorVars == <<status_code, instances, raised>>

-----------------------------------------------------------------------------
(* Bounds of the model *)

MaxBodyLen == 2
MaxAccess == 3
MaxResponses == 2
MaxLive == 1
MaxInstances == 2

-----------------------------------------------------------------------------
(* Python values *)

Val(t, n, s, keys, items) ==
    [t |-> t, n |-> n, s |-> s, keys |-> keys, items |-> items]

VNone == Val("NoneType", 0, <<>>, <<>>, <<>>)
VBool(b) == Val("bool", IF b THEN 1 ELSE 0, <<>>, <<>>, <<>>)
VInt(n) == Val("int", n, <<>>, <<>>, <<>>)
VStr(s) == Val("str", 0, s, <<>>, <<>>)
VList(items) == Val("list", 0, <<>>, <<>>, items)
VDict(keys, items) == Val("dict", 0, <<>>, keys, items)
VDate(y, m, d) == Val("date", 0, <<>>, <<>>, <<VInt(y), VInt(m), VInt(d)>>)
VDateTime(y, m, d, H, M, S) ==
    Val("datetime", 0, <<>>, <<>>,
        <<VInt(y), VInt(m), VInt(d), VInt(H), VInt(M), VInt(S)>>)
VUUID(hex) == Val("UUID", 0, hex, <<>>, <<>>)
VSet(items) == Val("set", 0, <<>>, <<>>, items)

\* bool(v): Python's truth value of v
Truthy(v) ==
    CASE v.t = "NoneType" -> FALSE
      [] v.t \in {"bool", "int"} -> v.n # 0
      [] v.t = "str" -> Len(v.s) > 0
      [] v.t \in {"list", "dict", "set"} -> Len(v.items) > 0
      [] OTHER -> TRUE

\* isinstance(v, dict)
IsDict(v) == v.t = "dict"

\* d[k] = v on a dict given as its keys and items: a key already there keeps
\* its place and takes the new value
DictSet(d, k, v) ==
    IF \E i \in 1..Len(d.keys) : d.keys[i] = k
    THEN LET i == CHOOSE j \in 1..Len(d.keys) : d.keys[j] = k
         IN  VDict(d.keys, [d.items EXCEPT ![i] = v])
    ELSE VDict(Append(d.keys, k), Append(d.items, v))

-----------------------------------------------------------------------------
(* json.loads, as the Python scanner computes it, on texts over Alphabet.   *)
(* Positions are Python's: 0-based, the character at idx is s[idx + 1].     *)

Alphabet == {"{", "}", "[", "]", "\"", ":", ",", " ", "0", "1", "a"}

IsWs(c) == c = " "
IsDigit(c) == c \in {"0", "1"}
DigitVal(c) == IF c = "0" THEN 0 ELSE 1

\* s[idx:idx+1], "" past the end
CharAt(s, idx) == IF idx < Len(s) THEN s[idx + 1] ELSE ""

\* s[idx:idx+n]
Slice(s, idx, n) ==
    [i \in 1..(IF idx + n <= Len(s) THEN n
               ELSE IF idx < Len(s) THEN Len(s) - idx ELSE 0) |-> s[idx + i]]

\* WHITESPACE.match(s, idx).end()
RECURSIVE SkipWs(_, _)
SkipWs(s, idx) ==
    IF idx < Len(s) /\ IsWs(s[idx + 1]) THEN SkipWs(s, idx + 1) ELSE idx

\* The outcomes of a scan: a value and the position after it, StopIteration
\* at a position, or JSONDecodeError with a message at a position.
Ok(v, end) == [k |-> "ok", v |-> v, end |-> end, msg |-> ""]
Stop(idx) == [k |-> "stop", v |-> VNone, end |-> idx, msg |-> ""]
DecodeErr(msg, pos) == [k |-> "err", v |-> VNone, end |-> pos, msg |-> msg]

\* the end of the run of digits starting at idx
RECURSIVE DigitsEnd(_, _)
DigitsEnd(s, idx) ==
    IF idx < Len(s) /\ IsDigit(s[idx + 1]) THEN DigitsEnd(s, idx + 1) ELSE idx

\* int(text) of the digits s[from..to-1]
RECURSIVE IntOf(_, _, _)
IntOf(s, from, to) ==
    IF to <= from THEN 0
    ELSE 10 * IntOf(s, from, to - 1) + DigitVal(s[to])

\* NUMBER_RE.match(s, idx): -?(0|[1-9]\d*), no fraction or exponent in Alphabet
match_number(s, idx) ==
    IF CharAt(s, idx) = "0" THEN Ok(VInt(0), idx + 1)
    ELSE IF IsDigit(CharAt(s, idx))
         THEN Ok(VInt(IntOf(s, idx, DigitsEnd(s, idx))), DigitsEnd(s, idx))
         ELSE Stop(idx)

\* the position of the first '"' at or after idx, Len(s) when there is none
RECURSIVE QuoteAt(_, _)
QuoteAt(s, idx) ==
    IF idx >= Len(s) \/ s[idx + 1] = "\"" THEN idx ELSE QuoteAt(s, idx + 1)

\* scanstring(s, end): end is the position after the opening quote
scanstring(s, end) ==
    LET q == QuoteAt(s, end)
    IN  IF q >= Len(s)
        THEN DecodeErr("Unterminated string starting at", end - 1)
        ELSE Ok(VStr(Slice(s, end, q - end)), q + 1)

RECURSIVE scan_once(_, _)
RECURSIVE ObjectPairs(_, _, _)
RECURSIVE ArrayValues(_, _, _)

\* JSONObject's loop: end0 is the position after the key's opening quote
ObjectPairs(s, end0, acc) ==
    LET key == scanstring(s, end0) IN
    IF key.k # "ok" THEN key ELSE
    LET e1 == IF CharAt(s, key.end) # ":" THEN SkipWs(s, key.end) ELSE key.end IN
    IF CharAt(s, e1) # ":" THEN DecodeErr("Expecting ':' delimiter", e1) ELSE
    LET e2 == e1 + 1
        e3 == IF IsWs(CharAt(s, e2))
              THEN IF IsWs(CharAt(s, e2 + 1)) THEN SkipWs(s, e2 + 2) ELSE e2 + 1
              ELSE e2
        value == scan_once(s, e3)
    IN
    IF value.k = "stop" THEN DecodeErr("Expecting value", value.end) ELSE
    IF value.k = "err" THEN value ELSE
    LET pairs == DictSet(acc, key.v.s, value.v)
        e4 == IF IsWs(CharAt(s, value.end)) THEN SkipWs(s, value.end + 1)
              ELSE value.end
        nextchar == CharAt(s, e4)
    IN
    IF nextchar = "}" THEN Ok(pairs, e4 + 1) ELSE
    IF nextchar # "," THEN DecodeErr("Expecting ',' delimiter", e4) ELSE
    LET e5 == SkipWs(s, e4 + 1) IN
    IF CharAt(s, e5) # "\""
    THEN DecodeErr("Expecting property name enclosed in double quotes", e5)
    ELSE ObjectPairs(s, e5 + 1, pairs)

\* JSONObject(s, end): end is the position after '{'
JSONObject(s, end) ==
    LET e1 == IF CharAt(s, end) # "\"" /\ IsWs(CharAt(s, end))
              THEN SkipWs(s, end) ELSE end
        nextchar == CharAt(s, e1)
    IN  IF nextchar = "\"" THEN ObjectPairs(s, e1 + 1, VDict(<<>>, <<>>))
        ELSE IF nextchar = "}" THEN Ok(VDict(<<>>, <<>>), e1 + 1)
        ELSE DecodeErr("Expecting property name enclosed in double quotes", e1)

\* JSONArray's loop: end is the position of the next element
ArrayValues(s, end, acc) ==
    LET value == scan_once(s, end) IN
    IF value.k = "stop" THEN DecodeErr("Expecting value", value.end) ELSE
    IF value.k = "err" THEN value ELSE
    LET values == Append(acc, value.v)
        e1 == IF IsWs(CharAt(s, value.end)) THEN SkipWs(s, value.end + 1)
              ELSE value.end
        nextchar == CharAt(s, e1)
        e2 == e1 + 1
        e3 == IF IsWs(CharAt(s, e2))
              THEN IF IsWs(CharAt(s, e2 + 1)) THEN SkipWs(s, e2 + 2) ELSE e2 + 1
              ELSE e2
    IN
    IF nextchar = "]" THEN Ok(VList(values), e2) ELSE
    IF nextchar # "," THEN DecodeErr("Expecting ',' delimiter", e1)
    ELSE ArrayValues(s, e3, values)

\* JSONArray(s, end): end is the position after '['
JSONArray(s, end) ==
    LET e1 == IF IsWs(CharAt(s, end)) THEN SkipWs(s, end + 1) ELSE end IN
    IF CharAt(s, e1) = "]" THEN Ok(VList(<<>>), e1 + 1)
    ELSE ArrayValues(s, e1, <<>>)

\* py_make_scanner's _scan_once(string, idx)
scan_once(s, idx) ==
    LET nextchar == CharAt(s, idx) IN
    CASE nextchar = "" -> Stop(idx)
      [] nextchar = "\"" -> scanstring(s, idx + 1)
      [] nextchar = "{" -> JSONObject(s, idx + 1)
      [] nextchar = "[" -> JSONArray(s, idx + 1)
      [] nextchar = "n" /\ Slice(s, idx, 4) = <<"n", "u", "l", "l">> ->
            Ok(VNone, idx + 4)
      [] nextchar = "t" /\ Slice(s, idx, 4) = <<"t", "r", "u", "e">> ->
            Ok(VBool(TRUE), idx + 4)
      [] nextchar = "f" /\ Slice(s, idx, 5) = <<"f", "a", "l", "s", "e">> ->
            Ok(VBool(FALSE), idx + 5)
      [] OTHER -> match_number(s, idx)

\* JSONDecoder.decode(s): raw_decode after leading whitespace, then only
\* whitespace may follow
decode(s) ==
    LET r == scan_once(s, SkipWs(s, 0)) IN
    IF r.k = "stop" THEN DecodeErr("Expecting value", r.end) ELSE
    IF r.k = "err" THEN r ELSE
    LET end == SkipWs(s, r.end) IN
    IF end # Len(s) THEN DecodeErr("Extra data", end) ELSE Ok(r.v, end)

\* json.loads(body): a str is decoded; any other type is a TypeError
json_loads(body) ==
    IF body.t = "str" THEN decode(body.s)
    ELSE [k |-> "TypeError", v |-> VNone, end |-> 0, msg |->
            "the JSON object must be str, bytes or bytearray"]

-----------------------------------------------------------------------------
(* Exceptions (exceptions.py) *)

\* an error text: str(e) of a JSONDecodeError, or a plain string (pos = -1)
PlainText(m) == [msg |-> m, lineno |-> 0, colno |-> 0, pos |-> -1]

\* str(e) of JSONDecodeError(msg, doc, pos): "%s: line %d column %d (char %d)";
\* the texts of the model hold no newline, so the line is 1 and the column pos + 1
StrOfDecodeError(e) ==
    [msg |-> e.msg, lineno |-> 1, colno |-> e.end + 1, pos |-> e.end]

\* the errors argument: a tuple of texts, or (as Request.data passes it) a str
ErrTuple(texts) == [t |-> "tuple", text |-> texts]
ErrStr(text) == [t |-> "str", text |-> <<text>>]

\* ServerlessError.__init__(self, message='', errors=()) on an instance of cls
ServerlessError_init(cls, message, errors) ==
    [cls |-> cls, args |-> <<message>>, message |-> message, errors |-> errors]

\* an exception that is no ServerlessError (TypeError, AttributeError)
BuiltinError(cls, message) ==
    [cls |-> cls, args |-> <<message>>, message |-> message, errors |-> ErrTuple(<<>>)]

NoExc == [cls |-> "", args |-> <<>>, message |-> "", errors |-> ErrTuple(<<>>)]

Classes == {"ServerlessError", "ClientError", "BadRequest", "Unauthorized",
            "Forbidden", "NotFound", "UnprocessableEntity"}

\* the base class of each exception class
Base(cls) == IF cls = "ServerlessError" THEN "Exception"
             ELSE IF cls = "ClientError" THEN "ServerlessError"
             ELSE "ClientError"

\* ClassBodies with BadRequest's `status_code = 400` left out
ClassBodiesUnset ==
    [ServerlessError |-> 500, Unauthorized |-> 401,
     Forbidden |-> 403, NotFound |-> 404, UnprocessableEntity |-> 422]

\* the class bodies: the classes that assign status_code, and the value
ClassBodies ==
    [ServerlessError |-> 500, BadRequest |-> 400, Unauthorized |-> 401,
     Forbidden |-> 403, NotFound |-> 404, UnprocessableEntity |-> 422]

\* cls.status_code, looked up along the base classes in the table attrs
RECURSIVE getattr_status_code(_, _)
getattr_status_code(attrs, cls) ==
    IF cls \in DOMAIN attrs THEN attrs[cls]
    ELSE IF cls \in Classes THEN getattr_status_code(attrs, Base(cls))
    ELSE -1

-----------------------------------------------------------------------------
(* Request (wrappers.py) *)

\* References: an object is the value a key of the event holds (src names the
\* key), None, or the n-th object an accessor allocated.
Ref(src, n, v) == [src |-> src, n |-> n, v |-> v]
NoneRef == Ref("None", 0, VNone)
New(n, v) == IF v.t = "NoneType" THEN NoneRef ELSE Ref("new", n, v)

EventKeys == {"body", "queryStringParameters", "pathParameters"}

\* an event: a mapping with some of EventKeys, or an object with no get()
Event(keys, val) ==
    [mapping |-> TRUE, keys |-> keys,
     val |-> [k \in EventKeys |-> IF k \in keys THEN val[k] ELSE VNone]]
NotAMapping == [mapping |-> FALSE, keys |-> {}, val |-> [k \in EventKeys |-> VNone]]

\* self.event.get(key, default) of a mapping event
event_get(ev, key, default) ==
    IF key \in ev.keys
    THEN IF ev.val[key].t = "NoneType" THEN NoneRef ELSE Ref(key, 0, ev.val[key])
    ELSE default

\* Request.__init__(self, event, context)
Request_init(ev) == [event |-> ev, _data |-> NoneRef]

\* What a call did: it returns obj or raises exc; effects lists, in order, the
\* calls it made and how it ended; logged holds the entries it logged.
Return(obj, effects) ==
    [kind |-> "return", obj |-> obj, exc |-> NoExc, effects |-> Append(effects, "return")]
Raise(exc, effects) ==
    [kind |-> "raise", obj |-> NoneRef, exc |-> exc, effects |-> Append(effects, "raise")]

\* line 85: `if not self._data`
needs_parse(d) == ~Truthy(d.v)

\* line 87: `isinstance(body, dict)`
isinstance_dict(body) == IsDict(body.v)

\* empty_result with None in place of dict()
empty_result_none == VNone

\* line 89, the else branch of the conditional expression: dict()
empty_result == VDict(<<>>, <<>>)

\* line 90: `except JSONDecodeError`: the outcomes of json.loads it catches
JSONDecodeError(r) == r.k = "err"

\* line 91: self.logger.info('Failed to decode request body=%r', body)
log_entry(body) ==
    <<[level |-> "INFO", msg |-> "Failed to decode request body=%r", args |-> <<body.v>>]>>

\* bad_request with the errors argument left out
bad_request_no_errors(e) ==
    ServerlessError_init("BadRequest", "Malformed request body", ErrTuple(<<>>))

\* lines 92-93: errors = (str(e)); BadRequest('Malformed request body', errors)
bad_request(e) ==
    ServerlessError_init("BadRequest", "Malformed request body",
                         ErrStr(StrOfDecodeError(e)))

\* lines 89-93: what the outcome r of json.loads(body) leads to
loads_outcome(self, body, n, r) ==
    IF r.k = "ok"
    THEN [_data |-> New(n + 1, r.v), nalloc |-> n + 1, logged |-> <<>>,
          res |-> Return(New(n + 1, r.v), <<"json.loads">>)]
    ELSE IF JSONDecodeError(r)
    THEN [_data |-> self._data, nalloc |-> n, logged |-> log_entry(body),
          res |-> Raise(bad_request(r), <<"json.loads", "logger.info">>)]
    ELSE [_data |-> self._data, nalloc |-> n, logged |-> <<>>,
          res |-> Raise(BuiltinError("TypeError", r.msg), <<"json.loads">>)]

\* lines 88-93: the try block on a body that is no dict
parse_body(self, body, n) ==
    IF Truthy(body.v)
    THEN loads_outcome(self, body, n, json_loads(body.v))
    ELSE [_data |-> New(n + 1, empty_result), nalloc |-> n + 1, logged |-> <<>>,
          res |-> Return(New(n + 1, empty_result), <<"dict">>)]

\* read_body with a dict body copied, `self._data = dict(body)`
read_body_copy(self, body, n) ==
    IF ~isinstance_dict(body)
    THEN parse_body(self, body, n)
    ELSE [_data |-> New(n + 1, body.v), nalloc |-> n + 1, logged |-> <<>>,
          res |-> Return(New(n + 1, body.v), <<"dict">>)]

\* lines 86-95: the body is read from the event, and parsed unless a dict
read_body(self, body, n) ==
    IF ~isinstance_dict(body)
    THEN parse_body(self, body, n)
    ELSE [_data |-> body, nalloc |-> n, logged |-> <<>>, res |-> Return(body, <<>>)]

\* Request.data, lines 85-96, on the request self with n objects allocated
data(self, n) ==
    IF needs_parse(self._data)
    THEN IF ~self.event.mapping
         THEN [_data |-> self._data, nalloc |-> n, logged |-> <<>>,
               res |-> Raise(BuiltinError("AttributeError", "get"), <<>>)]
         ELSE read_body(self, event_get(self.event, "body", NoneRef), n)
    ELSE [_data |-> self._data, nalloc |-> n, logged |-> <<>>,
          res |-> Return(self._data, <<>>)]

\* query reading the key of params
query_path(self, n) ==
    IF ~self.event.mapping
    THEN [nalloc |-> n, res |-> Raise(BuiltinError("AttributeError", "get"), <<>>)]
    ELSE [nalloc |-> n + 1,
          res |-> Return(event_get(self.event, "pathParameters",
                                   New(n + 1, VDict(<<>>, <<>>))), <<"dict">>)]

\* Request.query, line 106: self.event.get('queryStringParameters', dict())
query(self, n) ==
    IF ~self.event.mapping
    THEN [nalloc |-> n, res |-> Raise(BuiltinError("AttributeError", "get"), <<>>)]
    ELSE [nalloc |-> n + 1,
          res |-> Return(event_get(self.event, "queryStringParameters",
                                   New(n + 1, VDict(<<>>, <<>>))), <<"dict">>)]

\* Request.params, line 116: self.event.get('pathParameters', dict())
params(self, n) ==
    IF ~self.event.mapping
    THEN [nalloc |-> n, res |-> Raise(BuiltinError("AttributeError", "get"), <<>>)]
    ELSE [nalloc |-> n + 1,
          res |-> Return(event_get(self.event, "pathParameters",
                                   New(n + 1, VDict(<<>>, <<>>))), <<"dict">>)]

-----------------------------------------------------------------------------
(* json.dumps(data, cls=ServerlessJsonEncoder) (wrappers.py, lines 27-40, 147) *)

DigitChars == <<"0", "1", "2", "3", "4", "5", "6", "7", "8", "9">>

\* str(n) of an int n >= 0
RECURSIVE NatText(_)
NatText(n) ==
    IF n < 10 THEN <<DigitChars[n + 1]>>
    ELSE Append(NatText(n \div 10), DigitChars[(n % 10) + 1])

\* str(n) of an int
IntText(n) == IF n < 0 THEN <<"-">> \o NatText(-n) ELSE NatText(n)

\* '%0*d' % (width, n): n >= 0 padded with zeros to width
RECURSIVE Pad(_, _)
Pad(text, width) == IF Len(text) >= width THEN text ELSE Pad(<<"0">> \o text, width)

\* date.isoformat(): YYYY-MM-DD; datetime.isoformat() of a naive datetime
\* with no microseconds: YYYY-MM-DDTHH:MM:SS
isoformat(o) ==
    LET f(i, w) == Pad(NatText(o.items[i].n), w)
        day == f(1, 4) \o <<"-">> \o f(2, 2) \o <<"-">> \o f(3, 2)
    IN  IF o.t = "date" THEN day
        ELSE day \o <<"T">> \o f(4, 2) \o <<":">> \o f(5, 2) \o <<":">> \o f(6, 2)

\* str(o) of a UUID whose hex is o.s: 8-4-4-4-12
uuid_str(o) ==
    Slice(o.s, 0, 8) \o <<"-">> \o Slice(o.s, 8, 4) \o <<"-">> \o Slice(o.s, 12, 4)
    \o <<"-">> \o Slice(o.s, 16, 4) \o <<"-">> \o Slice(o.s, 20, 12)

\* ServerlessJsonEncoder.default(o), lines 34-40: the value encoded in o's
\* place; json.JSONEncoder.default raises TypeError
default_handles(o) == o.t \in {"date", "datetime", "UUID"}
default(o) == IF o.t \in {"date", "datetime"} THEN VStr(isoformat(o))
              ELSE VStr(uuid_str(o))

\* the text of a str between quotes, '"' and '\' escaped
RECURSIVE Escaped(_)
Escaped(text) ==
    IF text = <<>> THEN <<>>
    ELSE (IF Head(text) \in {"\"", "\\"} THEN <<"\\", Head(text)>> ELSE <<Head(text)>>)
         \o Escaped(Tail(text))

Quoted(text) == <<"\"">> \o Escaped(text) \o <<"\"">>

\* whether the encoder has an encoding of v (else it raises TypeError)
RECURSIVE Serializable(_)
Serializable(v) ==
    CASE v.t \in {"NoneType", "bool", "int", "str"} -> TRUE
      [] v.t \in {"list", "dict"} ->
            \A i \in 1..Len(v.items) : Serializable(v.items[i])
      [] OTHER -> default_handles(v)

\* the encoding of a serializable v, with json's separators ', ' and ': '
RECURSIVE Encode(_)
RECURSIVE EncodeItems(_, _)
EncodeItems(v, i) ==
    IF i > Len(v.items) THEN <<>>
    ELSE (IF i > 1 THEN <<",", " ">> ELSE <<>>)
         \o (IF v.t = "dict" THEN Quoted(v.keys[i]) \o <<":", " ">> ELSE <<>>)
         \o Encode(v.items[i]) \o EncodeItems(v, i + 1)
Encode(v) ==
    CASE v.t = "NoneType" -> <<"n", "u", "l", "l">>
      [] v.t = "bool" -> IF v.n = 1 THEN <<"t", "r", "u", "e">>
                         ELSE <<"f", "a", "l", "s", "e">>
      [] v.t = "int" -> IntText(v.n)
      [] v.t = "str" -> Quoted(v.s)
      [] v.t = "list" -> <<"[">> \o EncodeItems(v, 1) \o <<"]">>
      [] v.t = "dict" -> <<"{">> \o EncodeItems(v, 1) \o <<"}">>
      [] OTHER -> Encode(default(v))

\* json.dumps(data, cls=ServerlessJsonEncoder): the text, or TypeError
json_dumps(v) ==
    IF Serializable(v) THEN [k |-> "ok", text |-> Encode(v)]
    ELSE [k |-> "TypeError", text |-> <<>>]

-----------------------------------------------------------------------------
(* Response (wrappers.py) *)

\* lines 128-134: the literal the class body binds _security_headers to
SecurityHeaders ==
    ("X-Content-Type-Options" :> "nosniff")
    @@ ("X-Frame-Options" :> "SAMEORIGIN")
    @@ ("Cache-Control" :> "no-cache, must-revalidate")
    @@ ("Pragma" :> "no-cache")
    @@ ("X-XSS-Protection" :> "1; mode=block")

\* the headers argument: None, or a mapping
NoHeaders == [none |-> TRUE, map |-> <<>>]
Headers(map) == [none |-> FALSE, map |-> map]

\* bool(headers)
headers_truthy(h) == ~h.none /\ DOMAIN h.map # {}

\* d.update(h) on the contents of d
dict_update(d, h) ==
    [k \in DOMAIN d \cup DOMAIN h |-> IF k \in DOMAIN h THEN h[k] ELSE d[k]]

\* the id of the next dict allocated on the heap
FreshId(heap) == Cardinality(DOMAIN heap)

\* dict_copy without the copy: `self.headers = self._security_headers`
dict_no_copy(heap, id) == [heap |-> heap, id |-> id]

\* line 139, d.copy(): a new dict on the heap with the contents of dict id
dict_copy(heap, id) ==
    [heap |-> heap @@ (FreshId(heap) :> heap[id]), id |-> FreshId(heap)]

\* update_headers merging the other way: the entries already there win
update_headers_baseline_wins(heap, id, h) ==
    IF headers_truthy(h) THEN [heap EXCEPT ![id] = dict_update(h.map, @)] ELSE heap

\* lines 141-142: `if headers: self.headers.update(headers)`
update_headers(heap, id, h) ==
    IF headers_truthy(h) THEN [heap EXCEPT ![id] = dict_update(@, h.map)] ELSE heap

\* lines 137-142, given the copy c line 139 made
init_with(c, d, sc, h) ==
    [self |-> [data |-> d, status_code |-> sc, headers |-> c.id],
     heap |-> update_headers(c.heap, c.id, h)]

\* Response.__init__(self, data=None, status_code=200, headers=None), lines
\* 136-142, on the heap: the instance and the heap after it
Response_init(heap, cls_headers, d, sc, h) ==
    init_with(dict_copy(heap, cls_headers), d, sc, h)

\* Response.body, line 147
body(self) == json_dumps(self.data)

\* what to_lambda_output found: the dict it returns, or the TypeError of body
Rendered(self, b) ==
    IF b.k = "ok"
    THEN [kind |-> "return", statusCode |-> self.status_code, body |-> b.text,
          headers |-> self.headers]
    ELSE [kind |-> "raise", statusCode |-> 0, body |-> <<>>, headers |-> 0]

\* to_lambda_output setting a Content-Type entry in self.headers
to_lambda_output_content_type(self, heap) ==
    [resp |-> Rendered(self, body(self)), self |-> self,
     heap |-> [heap EXCEPT ![self.headers] =
                  dict_update(@, "Content-Type" :> "application/json")]]

\* Response.to_lambda_output(self), lines 161-167: the result, and the
\* instance and the heap after the call
to_lambda_output(self, heap) ==
    [resp |-> Rendered(self, body(self)), self |-> self, heap |-> heap]

-----------------------------------------------------------------------------
(* The events a Request is constructed from *)

\* every text over Alphabet of at most MaxBodyLen characters
Texts == UNION {[1..k -> Alphabet] : k \in 0..MaxBodyLen}

\* longer bodies: JSON texts of each kind of value, and malformed ones
SampleTexts ==
    { <<"{", "\"", "a", "\"", ":", "1", "}">>,
      <<"{", "\"", "a", "\"", ":", " ", "1", "}">>,
      <<"{", "n", "o", "t", " ", "j", "s", "o", "n">>,
      <<"{", "\"", "a", "\"", ":", "}">>,
      <<"[", "1", ",", "0", "]">>,
      <<"[", "1", ",", "]">>,
      <<"\"", "a", "\"">>,
      <<"n", "u", "l", "l">>,
      <<"t", "r", "u", "e">>,
      <<"f", "a", "l", "s", "e">>,
      <<" ", "{", "}", " ">> }

Bodies ==
    {VStr(t) : t \in Texts \cup SampleTexts}
    \cup {VNone, VInt(0), VInt(5), VDict(<<>>, <<>>),
          VDict(<< <<"a">> >>, <<VInt(1)>>)}

QueryValues == {VNone, VDict(<< <<"q">> >>, <<VStr(<<"1">>)>>)}
ParamsValues == {VDict(<<>>, <<>>), VDict(<< <<"i", "d">> >>, <<VStr(<<"1">>)>>)}

Events ==
    {NotAMapping} \cup
    {Event(keys, [k \in EventKeys |->
                    IF k = "body" THEN b
                    ELSE IF k = "queryStringParameters" THEN q ELSE p]) :
        keys \in SUBSET EventKeys, b \in Bodies, q \in QueryValues, p \in ParamsValues}

NoCall == [op |-> "", kind |-> "", obj |-> NoneRef, exc |-> NoExc, effects |-> <<>>]
Call(op, res) ==
    [op |-> op, kind |-> res.kind, obj |-> res.obj, exc |-> res.exc,
     effects |-> res.effects]

\* the number of entries of a sequence that equal x
Count(seq, x) == Cardinality({i \in 1..Len(seq) : seq[i] = x})

self_request == [event |-> event, _data |-> _data]

-----------------------------------------------------------------------------
(* Initial states: the classes as defined, and a Request just constructed *)

\* no call of to_lambda_output yet
NoOut == [i |-> 0, resp |-> [kind |-> "", statusCode |-> 0, body |-> <<>>, headers |-> 0],
          after |-> [data |-> VNone, status_code |-> 0, headers |-> <<>>],
          content |-> <<>>]

InitClasses ==
    /\ _security_headers = 0
    /\ dicts = (0 :> SecurityHeaders)
    /\ responses = <<>>
    /\ made = NoHeaders
    /\ out = NoOut
    /\ status_code = ClassBodies
    /\ instances = <<>>
    /\ raised = NoExc

InitRequest ==
    /\ \E ev \in Events :
          /\ event = Request_init(ev).event
          /\ _data = Request_init(ev)._data
    /\ last = NoCall
    /\ log = <<>>
    /\ loads_calls = 0
    /\ nalloc = 0
    /\ InitClasses

\* the state after an accessor call that did r
AfterData(r) ==
    /\ _data' = r._data
    /\ nalloc' = r.nalloc
    /\ log' = log \o r.logged
    /\ loads_calls' = loads_calls + Count(r.res.effects, "json.loads")
    /\ last' = Call("data", r.res)

AfterGet(op, r) ==
    /\ nalloc' = r.nalloc
    /\ last' = Call(op, r.res)

\* an access to request.data
GetData ==
    /\ nalloc < MaxAccess /\ loads_calls < MaxAccess
    /\ AfterData(data(self_request, nalloc))
    /\ UNCHANGED <<event, responseVars, errorVars>>

\* an access to request.query
GetQuery ==
    /\ nalloc < MaxAccess
    /\ AfterGet("query", query(self_request, nalloc))
    /\ UNCHANGED <<event, _data, log, loads_calls, responseVars, errorVars>>

\* an access to request.params
GetParams ==
    /\ nalloc < MaxAccess
    /\ AfterGet("params", params(self_request, nalloc))
    /\ UNCHANGED <<event, _data, log, loads_calls, responseVars, errorVars>>

NextRequest == GetData \/ GetQuery \/ GetParams

SpecRequest == InitRequest /\ [][NextRequest]_vars

-----------------------------------------------------------------------------
(* Response instances *)

\* the data a Response is given
Datas ==
    { VNone,
      VDict(<< <<"a">> >>, <<VInt(1)>>),
      VDict(<< <<"c", "r", "e", "a", "t", "e", "d">> >>, <<VDate(2020, 1, 1)>>),
      VUUID(<<"1", "2", "3", "4", "5", "6", "7", "8", "1", "2", "3", "4", "5", "6",
              "7", "8", "1", "2", "3", "4", "5", "6", "7", "8", "1", "2", "3", "4",
              "5", "6", "7", "8">>),
      VList(<<VStr(<<"a", "\"">>), VDateTime(2020, 1, 2, 3, 4, 5)>>),
      VSet(<<VInt(1)>>) }

Statuses == {200, 404}

\* the headers a caller passes: None, {}, an override, a new key, both
CallerHeaders ==
    { NoHeaders, Headers(<<>>),
      Headers("X-Frame-Options" :> "DENY"),
      Headers("X-Custom" :> "v"),
      Headers(("X-Frame-Options" :> "DENY") @@ ("X-Custom" :> "v")) }

\* the keys and values later assignments to response.headers use
MutKeys == {"X-Frame-Options", "X-Custom", "Pragma"}
MutValues == {"DENY"}

InitResponse ==
    /\ event = NotAMapping
    /\ _data = NoneRef
    /\ last = NoCall
    /\ log = <<>>
    /\ loads_calls = 0
    /\ nalloc = 0
    /\ InitClasses

\* the state after Response(...) made r
AfterInit(r) ==
    /\ responses' = Append(responses, r.self)
    /\ dicts' = r.heap

\* Response(d, sc, h) for d, sc and h of the given sets, at most max instances
Construct(max, ds, scs, hs) ==
    /\ Len(responses) < max
    /\ \E d \in ds, sc \in scs, h \in hs :
          /\ AfterInit(Response_init(dicts, _security_headers, d, sc, h))
          /\ made' = h
    /\ UNCHANGED <<_security_headers, out, requestVars, errorVars>>

\* Response(data, status_code) and Response(data, status_code, headers)
NewResponse ==
    Construct(MaxLive, Datas, Statuses, {NoHeaders, Headers("X-Frame-Options" :> "DENY")})

\* Response(headers=h): data and status_code take their defaults
NewDefaultResponse == Construct(MaxResponses, {VNone}, {200}, CallerHeaders)

\* response.data = d
SetData ==
    /\ \E i \in 1..Len(responses), d \in Datas :
          responses' = [responses EXCEPT ![i].data = d]
    /\ UNCHANGED <<_security_headers, dicts, made, out, requestVars, errorVars>>

\* response.status_code = sc
SetStatus ==
    /\ \E i \in 1..Len(responses), sc \in Statuses :
          responses' = [responses EXCEPT ![i].status_code = sc]
    /\ UNCHANGED <<_security_headers, dicts, made, out, requestVars, errorVars>>

\* response.headers[k] = v, for k of keys
AssignHeader(keys) ==
    /\ \E i \in 1..Len(responses), k \in keys, v \in MutValues :
          dicts' = [dicts EXCEPT ![responses[i].headers] = dict_update(@, k :> v)]
    /\ UNCHANGED <<_security_headers, responses, made, out, requestVars, errorVars>>

SetHeader == AssignHeader(MutKeys)

SetFrameOptions == AssignHeader({"X-Frame-Options"})

\* del response.headers[k]
PopHeader ==
    /\ \E i \in 1..Len(responses) :
          \E k \in MutKeys \cap DOMAIN dicts[responses[i].headers] :
             dicts' = [dicts EXCEPT ![responses[i].headers] =
                          [x \in DOMAIN @ \ {k} |-> @[x]]]
    /\ UNCHANGED <<_security_headers, responses, made, out, requestVars, errorVars>>

\* the state after response i's to_lambda_output did r: out records the
\* result, the instance as the call left it, and the returned headers' content
AfterRender(i, r) ==
    /\ responses' = [responses EXCEPT ![i] = r.self]
    /\ dicts' = r.heap
    /\ out' = [i |-> i, resp |-> r.resp,
               after |-> [data |-> r.self.data, status_code |-> r.self.status_code,
                          headers |-> r.heap[r.self.headers]],
               content |-> IF r.resp.kind = "return" THEN r.heap[r.resp.headers]
                           ELSE <<>>]

\* response.to_lambda_output()
ToLambdaOutput ==
    /\ \E i \in 1..Len(responses) :
          AfterRender(i, to_lambda_output(responses[i], dicts))
    /\ UNCHANGED <<_security_headers, made, requestVars, errorVars>>

NextResponse ==
    NewResponse \/ SetData \/ SetStatus \/ SetFrameOptions \/ ToLambdaOutput

SpecResponse == InitResponse /\ [][NextResponse]_vars

NextHeaders == NewDefaultResponse \/ SetHeader \/ PopHeader

SpecHeaders == InitResponse /\ [][NextHeaders]_vars

-----------------------------------------------------------------------------
(* Exception instances *)

Messages == {"", "not found"}
ErrorDetails == {ErrTuple(<<>>), ErrTuple(<<PlainText("id")>>)}

\* the status_code an instance of cls exposes: __init__ sets no instance
\* attribute of that name, so the class's is found
instance_status_code(attrs, e) == getattr_status_code(attrs, e.cls)

\* the calls: cls(), cls(message), cls(message, errors)
Calls ==
    {[n |-> 0, message |-> "", errors |-> ErrTuple(<<>>)]}
    \cup {[n |-> 1, message |-> m, errors |-> ErrTuple(<<>>)] : m \in Messages}
    \cup {[n |-> 2, message |-> m, errors |-> errs] : m \in Messages, errs \in ErrorDetails}

\* line 36, `message=''`, `errors=()`: the parameters a call binds
bind_message(call) == IF call.n >= 1 THEN call.message ELSE ""
bind_errors(call) == IF call.n >= 2 THEN call.errors ELSE ErrTuple(<<>>)

\* cls(*call): the instance, with the call kept beside it
NewError ==
    /\ Len(instances) < MaxInstances
    /\ \E cls \in Classes, call \in Calls :
          instances' = Append(instances,
              [call |-> call,
               e |-> ServerlessError_init(cls, bind_message(call), bind_errors(call))])
    /\ UNCHANGED <<status_code, raised, requestVars, responseVars>>

\* raise e
RaiseError ==
    /\ \E i \in 1..Len(instances) : raised' = instances[i].e
    /\ UNCHANGED <<status_code, instances, requestVars, responseVars>>

NextError == NewError \/ RaiseError

SpecError == InitResponse /\ [][NextError]_vars

-----------------------------------------------------------------------------
(* The claims *)

\* the body of the event, None when the key is absent
BodyOf(ev) == IF "body" \in ev.keys THEN ev.val["body"] ELSE VNone

DataReturned == last.op = "data" /\ last.kind = "return"

\* C1: after a data access has returned, a later data access returns the same
\* value and json.loads is not entered again, whatever the body is.
C1_ParsedAtMostOnce ==
    [][(DataReturned /\ last'.op = "data")
          => /\ loads_calls' = loads_calls
             /\ last'.kind = "return"
             /\ last'.obj.v = last.obj.v]_vars

\* a non-empty string body that json.loads rejects
MalformedBody(ev) ==
    /\ ev.mapping
    /\ BodyOf(ev).t = "str"
    /\ BodyOf(ev).s # <<>>
    /\ decode(BodyOf(ev).s).k = "err"

\* C2: with a malformed body every data access raises BadRequest (400,
\* "Malformed request body", errors = the decode error's text) after logging
\* the body at INFO; the cache stays unset and the event never changes.
C2_MalformedInv ==
    (MalformedBody(event) /\ last.op = "data") =>
        /\ last.kind = "raise"
        /\ last.exc.cls = "BadRequest"
        /\ instance_status_code(status_code, last.exc) = 400
        /\ last.exc.message = "Malformed request body"
        /\ last.exc.errors.text = <<StrOfDecodeError(decode(BodyOf(event).s))>>
        /\ last.effects = <<"json.loads", "logger.info", "raise">>
        /\ Len(log) = loads_calls /\ Len(log) >= 1
        /\ \A i \in 1..Len(log) :
              log[i].level = "INFO" /\ log[i].args = <<BodyOf(event)>>
        /\ _data = NoneRef

BaselineHeaders ==
    [k \in {"X-Content-Type-Options", "X-Frame-Options", "Cache-Control",
            "Pragma", "X-XSS-Protection"} |->
        CASE k = "X-Content-Type-Options" -> "nosniff"
          [] k = "X-Frame-Options" -> "SAMEORIGIN"
          [] k = "Cache-Control" -> "no-cache, must-revalidate"
          [] k = "Pragma" -> "no-cache"
          [] k = "X-XSS-Protection" -> "1; mode=block"]

\* the keys the caller supplied
Supplied(h) == IF h.none THEN {} ELSE DOMAIN h.map

\* the headers of the instance a step constructs are as C3 says
ConstructedHeaders(hs, h) ==
    /\ DOMAIN hs = DOMAIN BaselineHeaders \cup Supplied(h)
    /\ \A k \in Supplied(h) : hs[k] = h.map[k]
    /\ \A k \in DOMAIN BaselineHeaders \ Supplied(h) : hs[k] = BaselineHeaders[k]
    /\ (Supplied(h) = {} => hs = BaselineHeaders)

\* C3: the headers of a Response just constructed hold the five baseline keys,
\* the caller's value for each key the caller gave, the baseline value for the
\* rest, and exactly the baseline when the caller gave none.
C3_HeadersAfterInit ==
    [][Len(responses') = Len(responses) + 1
          => ConstructedHeaders(dicts'[responses'[Len(responses')].headers], made')]_vars

C3_Witness ==
    /\ Len(responses) = 2
    /\ made = Headers(("X-Frame-Options" :> "DENY") @@ ("X-Custom" :> "v"))
    /\ dicts[responses[2].headers]["X-Frame-Options"] = "DENY"
    /\ dicts[responses[2].headers]["Pragma"] = "no-cache"
    /\ dicts[responses[1].headers] = BaselineHeaders

\* response i as a call of to_lambda_output sees it
Seen(i) ==
    [data |-> responses[i].data, status_code |-> responses[i].status_code,
     headers |-> dicts[responses[i].headers]]

\* C4: to_lambda_output changes nothing of the Response, and a call on a
\* Response that is as the previous call on it left it gives the same
\* statusCode, body and headers.
C4_RenderPure ==
    [][/\ (out' # out => responses' = responses /\ dicts' = dicts)
       /\ (out.i >= 1 /\ out'.i = out.i /\ Seen(out.i) = out.after)
             => (out'.resp = out.resp /\ out'.content = out.content)]_vars

C4_Witness ==
    /\ out.i = 1 /\ out.resp.kind = "return"
    /\ out.resp.statusCode = 404
    /\ out.content["X-Frame-Options"] = "DENY"
    /\ out.resp.body = <<"{", "\"", "c", "r", "e", "a", "t", "e", "d", "\"", ":", " ",
                         "\"", "2", "0", "2", "0", "-", "0", "1", "-", "0", "1", "\"", "}">>
    /\ Seen(1) = out.after

\* a body that is absent or falsy
FalsyBody(ev) == ev.mapping /\ ~Truthy(BodyOf(ev))

\* C5: with the body absent or falsy every data access returns an empty
\* mapping and raises nothing.
C5_EmptyBody ==
    (FalsyBody(event) /\ last.op = "data") =>
        /\ last.kind = "return"
        /\ last.obj.v = VDict(<<>>, <<>>)

C5_Witness ==
    /\ FalsyBody(event) /\ BodyOf(event) = VStr(<<>>) /\ "body" \in event.keys
    /\ last.op = "data" /\ nalloc >= 2 /\ last.obj.v = VDict(<<>>, <<>>)

\* a body that is a mapping
DictBody(ev) == ev.mapping /\ IsDict(BodyOf(ev))

\* C6: with a mapping body data returns that very mapping, its content as in
\* the event, and json.loads is never entered.
C6_DictBody ==
    (DictBody(event) /\ last.op = "data") =>
        /\ last.kind = "return"
        /\ last.obj = Ref("body", 0, BodyOf(event))
        /\ loads_calls = 0
        /\ Count(last.effects, "json.loads") = 0

C6_Witness ==
    /\ DictBody(event) /\ BodyOf(event) = VDict(<< <<"a">> >>, <<VInt(1)>>)
    /\ last.op = "data" /\ last.kind = "return" /\ _data = last.obj

\* the documented status codes (spec, section 4.1)
Documented ==
    [ServerlessError |-> 500, BadRequest |-> 400, Unauthorized |-> 401,
     Forbidden |-> 403, NotFound |-> 404, UnprocessableEntity |-> 422]

C7_Inv ==
    /\ \A cls \in DOMAIN Documented :
          getattr_status_code(status_code, cls) = Documented[cls]
    /\ \A i \in 1..Len(instances) :
          (instances[i].e.cls \in DOMAIN Documented /\ instances[i].call.n = 0) =>
             /\ instance_status_code(status_code, instances[i].e)
                   = Documented[instances[i].e.cls]
             /\ instances[i].e.message = ""
             /\ instances[i].e.errors = ErrTuple(<<>>)

\* C7: each variant constructed with no arguments has its documented status
\* code, an empty message and empty errors; no construction and no raise
\* changes any class's status code.
C7_StatusCodes == [](C7_Inv) /\ [][status_code' = status_code]_vars

C7_Witness ==
    /\ Len(instances) = 2
    /\ instances[1].call.n = 0 /\ instances[1].e.cls = "BadRequest"
    /\ instances[2].call.n = 2 /\ instances[2].e.cls = "NotFound"
    /\ raised = instances[1].e

\* what event.get(key, {}) is to give
FieldOrEmpty(ev, key) == IF key \in ev.keys THEN ev.val[key] ELSE VDict(<<>>, <<>>)

C8_Inv ==
    /\ (event.mapping /\ last.op = "query") =>
          /\ last.kind = "return"
          /\ last.obj.v = FieldOrEmpty(event, "queryStringParameters")
    /\ (event.mapping /\ last.op = "params") =>
          /\ last.kind = "return"
          /\ last.obj.v = FieldOrEmpty(event, "pathParameters")

\* C8: on a mapping event query and params return the event's field when the
\* key is there and an empty mapping when it is not, and change neither the
\* event nor the cache.
C8_QueryParams ==
    /\ [](C8_Inv)
    /\ [][last'.op \in {"query", "params"} => (event' = event /\ _data' = _data)]_vars

C8_Witness ==
    /\ event.mapping /\ last.op = "query" /\ last.kind = "return"
    /\ "queryStringParameters" \in event.keys /\ "pathParameters" \notin event.keys
    /\ last.obj.v = VDict(<< <<"q">> >>, <<VStr(<<"1">>)>>)
    /\ Truthy(_data.v)

C9_Inv ==
    /\ dicts[_security_headers] = BaselineHeaders
    /\ \A i \in 1..Len(responses) :
          /\ responses[i].headers # _security_headers
          /\ \A j \in 1..Len(responses) :
                i # j => responses[i].headers # responses[j].headers

\* the content of instance i's headers
HeadersOf(i) == dicts[responses[i].headers]

\* C9: the baseline always holds its five literal entries, no two instances
\* (nor an instance and the class) share a header mapping, and a step changes
\* the headers of at most one instance: a construction those of none that
\* exists, a mutation those of the one mutated.
C9_NoSharing ==
    /\ [](C9_Inv)
    /\ [][\A i, j \in 1..Len(responses) :
             (i # j /\ HeadersOf(i)' # HeadersOf(i)) => HeadersOf(j)' = HeadersOf(j)]_vars
    /\ [][Len(responses') > Len(responses)
             => \A i \in 1..Len(responses) : HeadersOf(i)' = HeadersOf(i)]_vars

C9_Witness ==
    /\ Len(responses) = 2
    /\ "Pragma" \notin DOMAIN HeadersOf(1)
    /\ HeadersOf(2)["Pragma"] = "no-cache"
    /\ HeadersOf(2)["X-Frame-Options"] = "DENY"
    /\ HeadersOf(1)["X-Frame-Options"] = "SAMEORIGIN"

\* C10: whatever a data access returns is a dict.
C10_DataIsDict == DataReturned => IsDict(last.obj.v)

====
